---------------------------- MODULE Spec2Model ----------------------------
(***************************************************************************)
(* A model of the text layout engine, the box composer, the table composer *)
(* the spinner, the input prompt, the menu and the progress bar of         *)
(* bagaking/cmdux.                                                         *)
(*                                                                         *)
(* A string is a sequence of glyphs (codepoints).  The glyphs are named by *)
(* the class that decides how the code treats them:                        *)
(*   "a"    an ASCII letter, one column                                    *)
(*   "[" "]" printable non-letters, one column each                        *)
(*   "SP"   a space: whitespace for strings.Fields, one column             *)
(*   "NL"   a newline: whitespace, a control character, zero columns       *)
(*   "WIDE" an East-Asian wide glyph, two columns                          *)
(*   "ZW"   a zero-width combining mark                                    *)
(*   "ESC"  the escape control character 0x1b, zero columns                *)
(*   "ELL"  the ellipsis marker U+2026, one column                         *)
(*   "TL" "TR" "BL" "BR" "H" "V" the box drawing glyphs, one column each   *)
(*   "TT" "TB" "TEE" "TER" "X" the tee and cross glyphs of a table's       *)
(*          borders, one column each                                       *)
(*   "-"    a hyphen, one column                                           *)
(*   "A"    an upper-case ASCII letter, one column                         *)
(***************************************************************************)
EXTENDS Integers, Sequences, FiniteSets, TLC

VARIABLES
    text,       \* the string handed to a Renderer operation
    width,      \* the width budget handed to it
    op,         \* the operation applied last, "none" before any
    arg,        \* its third argument (an alignment or a glyph), "none" if it has none
    out,        \* what it returned, as a sequence of strings
    headers,        \* Table.headers
    rows,           \* Table.rows
    columnWidths,   \* Table.columnWidths
    alignment,      \* Table.alignment
    tableOp,        \* the Table method called last, "NewTable" before any
    explicitSet,    \* history: ColumnWidths was called with at least one width while the
                    \* table had no row, and only AddRow and Rows were called since
    explicitWidths, \* history: the widths that call supplied
    autoSized,      \* history: ColumnWidths was never called
    tableBorder,    \* Table.border
    tableRenders,   \* history: the number of Table.Render calls made
    tableRendered,  \* the lines of the string the last Table.Render returned
    tablePanicked,  \* the last Table.Render call panicked, and returned nothing
    title,          \* Box.title
    content,        \* Box.content
    padding,        \* Box.padding
    border,         \* Box.border
    boxWidth,       \* Box.Component.width, -1 for auto
    boxHeight,      \* Box.Component.height, -1 for auto
    boxOp,          \* "NewBox" while the box is being configured, "Render" once rendered
    resolvedWidth,  \* the local width of Box.Render, 0 before Render
    resolvedHeight, \* the local height of Box.Render, 0 before Render
    rendered,       \* the lines of the string Box.Render returned
    boxRenders,     \* history: the number of Box.Render calls made
    boxPanicked,    \* the last Box.Render call panicked, and returned nothing
    frames,         \* Spinner.frames: the number of frames of the spinner's style
    spinnerText,    \* Spinner.text
    stop,           \* Spinner.stop, the channel: "open" or "closed"
    caller,         \* where the goroutine that owns the spinner is: "new" before Start,
                    \* "spinning" after it, "stopping" in Stop once the channel is
                    \* closed, "stopped" when Stop has returned, "panicked" when its
                    \* close of the channel panicked
    stopMethod,     \* the method that called Stop last: "Stop" itself, "Success",
                    \* "Error", "Warning" or "Info"; "none" before any
    goroutine,      \* where the repaint goroutine is: "none" before Start, "select",
                    \* "print", "sleep", and "exited" when it has returned
    frame,          \* i % len(s.frames) for the local i of the repaint goroutine: the
                    \* index of the frame printed next
    screen,         \* what was printed last: <<"nothing">>, <<"frame", k>> for the
                    \* frame of index k, or <<"blank">>
    framesAfterStop, \* history: the frames printed since the channel was closed,
                    \* counted up to MaxFramesAfterStop
    defaultValue,   \* Prompt.defaultValue
    required,       \* Prompt.required
    transformer,    \* Prompt.transformer: "nil" or the function set
    validator,      \* Prompt.validator: "nil" or the function set
    promptPc,       \* where Prompt.Run is: "new" before it is called, "reading" at
                    \* its ReadString, "returned"
    reads,          \* history: the lines Run has read
    promptMessage,  \* the failure Run printed last: "none", "required" or "invalid"
    result,         \* the string Run returned
    resultErr,      \* the error Run returned: "nil" or "read error"
    options,        \* Menu.options
    descriptions,   \* Menu.descriptions: <<"desc", o>> is the description of o
    selected,       \* Menu.selected
    barWidth,       \* ProgressBar.width
    total,          \* ProgressBar.total
    current,        \* ProgressBar.current
    completed,      \* ProgressBar.completed
    barOut          \* what ProgressBar.Render returned last, from the left cap to
                    \* the right cap; <<"nothing">> before the first call

textVars == <<text, width, op, arg, out>>
tableConfig == <<headers, rows, columnWidths, alignment, tableBorder>>
tableOutput == <<tableRenders, tableRendered, tablePanicked>>
tableVars == <<tableConfig, tableOp, explicitSet, explicitWidths, autoSized, tableOutput>>
boxConfig == <<title, content, padding, border, boxWidth, boxHeight>>
boxVars == <<boxConfig, boxOp, resolvedWidth, resolvedHeight, rendered, boxRenders, boxPanicked>>
spinnerVars ==
    <<frames, spinnerText, stop, caller, stopMethod, goroutine, frame, screen, framesAfterStop>>
promptConfig == <<defaultValue, required, transformer, validator>>
promptVars == <<promptConfig, promptPc, reads, promptMessage, result, resultErr>>
menuVars == <<options, descriptions, selected>>
barVars == <<barWidth, total, current, completed, barOut>>
widgetVars == <<promptVars, menuVars, barVars>>
vars == <<textVars, tableVars, boxVars, spinnerVars, widgetVars>>

-----------------------------------------------------------------------------
(* Bounds of the model *)

MaxLen == 4         \* longest input string, in glyphs
MaxWidth == 5       \* largest width budget
MaxNeg == 2         \* the width budgets start at -MaxNeg
MaxRows == 2        \* most rows a table holds, and most rows one Rows call sets
MaxContentLen == 4  \* longest box content, in glyphs
MaxPadding == 1     \* largest box padding
MaxRenders == 2     \* most Render calls made on one component
MaxFramesAfterStop == 2  \* the count of frames printed after Stop goes no further
MaxInputLen == 2    \* longest line typed at a prompt, in glyphs
MaxReads == 2       \* most lines one Prompt.Run call reads
MaxOptions == 3     \* most options passed to Menu.Options
MaxBarWidth == 3    \* widest progress bar
MaxTotal == 2       \* largest ProgressBar.total
MaxCurrent == 3     \* largest progress value passed to the bar

-----------------------------------------------------------------------------
(* Strings *)

RECURSIVE SeqsUpTo(_, _)
SeqsUpTo(S, n) ==
    IF n = 0 THEN {<<>>}
    ELSE LET shorter == SeqsUpTo(S, n - 1)
         IN  shorter \cup {Append(s, g) : s \in {t \in shorter : Len(t) = n - 1}, g \in S}

RECURSIVE Repeat(_, _)
(* strings.Repeat: count copies of s.  A negative count panics: the renders,
   which can pass one, say with RepeatPanics whether a call of theirs does, and
   return nothing if so. *)
Repeat(s, count) == IF count <= 0 THEN <<>> ELSE s \o Repeat(s, count - 1)

RepeatPanics(count) == count < 0

Ellipsis == <<"ELL">>
Space == <<"SP">>

IsLetter(g) == g = "a"
IsSpace(g) == g \in {"SP", "NL"}

-----------------------------------------------------------------------------
(* go-runewidth, as the code calls it.  The ellipsis and the box drawing
   glyphs are East-Asian ambiguous: one column outside an East-Asian locale,
   which is what the tests of the repository expect. *)

RuneWidth(g) ==
    CASE g = "WIDE" -> 2
      [] g \in {"ZW", "ESC", "NL"} -> 0
      [] OTHER -> 1

RECURSIVE StringWidth(_)
StringWidth(s) == IF s = <<>> THEN 0 ELSE RuneWidth(Head(s)) + StringWidth(Tail(s))

RECURSIVE KeepLen(_, _, _, _)
(* The loop of runewidth.Truncate: the number of leading glyphs kept, the
   first i glyphs having width acc, within budget w. *)
KeepLen(s, i, acc, w) ==
    IF i >= Len(s) THEN Len(s)
    ELSE IF acc + RuneWidth(s[i + 1]) > w THEN i
    ELSE KeepLen(s, i + 1, acc + RuneWidth(s[i + 1]), w)

Truncate(s, w, tail) ==
    IF StringWidth(s) <= w THEN s
    ELSE SubSeq(s, 1, KeepLen(s, 0, 0, w - StringWidth(tail))) \o tail

-----------------------------------------------------------------------------
(* strings.Fields and strings.Split *)

RECURSIVE FieldsAcc(_, _, _)
FieldsAcc(s, cur, acc) ==
    IF s = <<>> THEN (IF cur = <<>> THEN acc ELSE Append(acc, cur))
    ELSE IF IsSpace(Head(s))
         THEN FieldsAcc(Tail(s), <<>>, IF cur = <<>> THEN acc ELSE Append(acc, cur))
         ELSE FieldsAcc(Tail(s), Append(cur, Head(s)), acc)

Fields(s) == FieldsAcc(s, <<>>, <<>>)

RECURSIVE SplitAcc(_, _, _, _)
SplitAcc(s, sep, cur, acc) ==
    IF s = <<>> THEN Append(acc, cur)
    ELSE IF Head(s) = sep
         THEN SplitAcc(Tail(s), sep, <<>>, Append(acc, cur))
         ELSE SplitAcc(Tail(s), sep, Append(cur, Head(s)), acc)

Split(s, sep) == SplitAcc(s, sep, <<>>, <<>>)

-----------------------------------------------------------------------------
(* core: StripANSI and MeasureText *)

RECURSIVE StripAccKeepsTerminator(_, _, _)
(* StripANSI writing the letter that ends an escape sequence. *)
StripAccKeepsTerminator(s, inEscape, acc) ==
    IF s = <<>> THEN acc
    ELSE IF Head(s) = "ESC" THEN StripAccKeepsTerminator(Tail(s), TRUE, acc)
    ELSE IF inEscape /\ ~IsLetter(Head(s)) THEN StripAccKeepsTerminator(Tail(s), TRUE, acc)
    ELSE StripAccKeepsTerminator(Tail(s), FALSE, Append(acc, Head(s)))

RECURSIVE StripAcc(_, _, _)
StripAcc(s, inEscape, acc) ==
    IF s = <<>> THEN acc
    ELSE IF Head(s) = "ESC" THEN StripAcc(Tail(s), TRUE, acc)
    ELSE IF inEscape THEN StripAcc(Tail(s), ~IsLetter(Head(s)), acc)
    ELSE StripAcc(Tail(s), FALSE, Append(acc, Head(s)))

StripANSI(s) == StripAcc(s, FALSE, <<>>)

MeasureText(s) == StringWidth(StripANSI(s))

-----------------------------------------------------------------------------
(* style: Color.Sprint (fatih/color with colour on): the text between a
   colour escape sequence and the reset escape sequence *)

Sprint(s) == <<"ESC", "[", "a">> \o s \o <<"ESC", "[", "a">>

-----------------------------------------------------------------------------
(* core: Renderer *)

Alignments == {"AlignLeft", "AlignCenter", "AlignRight"}

(* PadText guarding only negative widths. *)
PadTextNegativeGuard(s, w, align) ==
    IF w < 0 THEN s
    ELSE IF StringWidth(s) >= w THEN Truncate(s, w, Ellipsis)
    ELSE s \o Repeat(Space, w - StringWidth(s))

PadText(s, w, align) ==
    IF w <= 0 THEN s
    ELSE LET textWidth == StringWidth(s)
             padCount == w - textWidth
             leftPad == padCount \div 2
         IN  IF textWidth >= w THEN Truncate(s, w, Ellipsis)
             ELSE CASE align = "AlignLeft" -> s \o Repeat(Space, padCount)
                    [] align = "AlignRight" -> Repeat(Space, padCount) \o s
                    [] align = "AlignCenter" ->
                          Repeat(Space, leftPad) \o s \o Repeat(Space, padCount - leftPad)
                    [] OTHER -> s \o Repeat(Space, padCount)

RECURSIVE WrapWords(_, _, _, _)
(* The loop over the words of WrapText and of Box.wrapContent: lines is the
   result so far, currentLine the line being filled. *)
WrapWords(words, w, currentLine, lines) ==
    IF words = <<>>
    THEN (IF currentLine # <<>> THEN Append(lines, currentLine) ELSE lines)
    ELSE LET word == Head(words)
             testLine == (IF currentLine # <<>> THEN currentLine \o Space ELSE <<>>) \o word
         IN  IF StringWidth(testLine) <= w
             THEN WrapWords(Tail(words), w, testLine, lines)
             ELSE IF currentLine # <<>>
                  THEN WrapWords(Tail(words), w, word, Append(lines, currentLine))
                  ELSE WrapWords(Tail(words), w, <<>>,
                                 Append(lines, Truncate(word, w, Ellipsis)))

(* WrapText packing to one column less than asked. *)
WrapTextOffByOne(s, w) ==
    IF w <= 0 THEN <<s>>
    ELSE IF Fields(s) = <<>> THEN << <<>> >>
    ELSE WrapWords(Fields(s), w - 1, <<>>, <<>>)

(* WrapText returning no line for a text without words. *)
WrapTextNoLineForBlank(s, w) ==
    IF w <= 0 THEN <<s>>
    ELSE WrapWords(Fields(s), w, <<>>, <<>>)

WrapText(s, w) ==
    IF w <= 0 THEN <<s>>
    ELSE IF Fields(s) = <<>> THEN << <<>> >>
    ELSE WrapWords(Fields(s), w, <<>>, <<>>)

(* TruncateText forgetting that the marker takes a column. *)
TruncateTextNoMarkerColumn(s, w) ==
    IF w <= 0 THEN <<>> ELSE Truncate(s, w + StringWidth(Ellipsis), Ellipsis)

(* TruncateText guarding only negative widths. *)
TruncateTextNegativeGuard(s, w) == IF w < 0 THEN <<>> ELSE Truncate(s, w, Ellipsis)

TruncateText(s, w) == IF w <= 0 THEN <<>> ELSE Truncate(s, w, Ellipsis)

RepeatChar(char, w) ==
    IF w <= 0 THEN <<>>
    ELSE LET charWidth == IF RuneWidth(char) = 0 THEN 1 ELSE RuneWidth(char)
         IN  Repeat(<<char>>, w \div charWidth)

-----------------------------------------------------------------------------
(* The layout specification: an input is drawn and one Renderer operation is
   applied to it (the Renderer holds no state that its operations read or
   write, so one application per drawn input covers every call). *)

TextGlyphs == {"a", "[", "SP", "WIDE", "ZW", "ESC"}
RepeatGlyphs == {"a", "WIDE", "ZW"}
Texts == SeqsUpTo(TextGlyphs, MaxLen)
Widths == (0 - MaxNeg) .. MaxWidth

TextInit ==
    /\ text \in Texts
    /\ width \in Widths
    /\ op = "none"
    /\ arg = "none"
    /\ out = <<>>

DoPadText ==
    \E align \in Alignments :
        /\ op = "none"
        /\ op' = "PadText"
        /\ arg' = align
        /\ out' = <<PadText(text, width, align)>>
        /\ UNCHANGED <<text, width, tableVars, boxVars, spinnerVars, widgetVars>>

DoWrapText ==
    /\ op = "none"
    /\ op' = "WrapText"
    /\ arg' = "none"
    /\ out' = WrapText(text, width)
    /\ UNCHANGED <<text, width, tableVars, boxVars, spinnerVars, widgetVars>>

DoTruncateText ==
    /\ op = "none"
    /\ op' = "TruncateText"
    /\ arg' = "none"
    /\ out' = <<TruncateText(text, width)>>
    /\ UNCHANGED <<text, width, tableVars, boxVars, spinnerVars, widgetVars>>

DoRepeatChar ==
    \E char \in RepeatGlyphs :
        /\ op = "none"
        /\ op' = "RepeatChar"
        /\ arg' = char
        /\ out' = <<RepeatChar(char, width)>>
        /\ UNCHANGED <<text, width, tableVars, boxVars, spinnerVars, widgetVars>>

(* StripANSI applied to the text as it is, or to the text a Color has
   painted (as renderWithBorder applies it to a painted content line) *)
DoStripANSI ==
    \E paint \in {"none", "Sprint"} :
        /\ op = "none"
        /\ op' = "StripANSI"
        /\ arg' = paint
        /\ out' = <<StripANSI(IF paint = "Sprint" THEN Sprint(text) ELSE text)>>
        /\ UNCHANGED <<text, width, tableVars, boxVars, spinnerVars, widgetVars>>

Next == DoPadText \/ DoWrapText \/ DoTruncateText \/ DoRepeatChar \/ DoStripANSI

-----------------------------------------------------------------------------
(* ui: Table *)

NewTable ==
    /\ headers = <<>>
    /\ rows = <<>>
    /\ columnWidths = <<>>
    /\ alignment = <<"AlignLeft">>
    /\ tableOp = "NewTable"
    /\ explicitSet = FALSE
    /\ explicitWidths = <<>>
    /\ autoSized = TRUE
    /\ tableBorder = TRUE
    /\ tableRenders = 0
    /\ tableRendered = <<>>
    /\ tablePanicked = FALSE

(* updateColumnWidthsForRow overwriting the width with each cell's. *)
updateColumnWidthsForRowOverwrite(cw, row) ==
    [i \in 1 .. Len(cw) |-> IF i <= Len(row) THEN StringWidth(row[i]) ELSE cw[i]]

updateColumnWidthsForRow(cw, row) ==
    [i \in 1 .. Len(cw) |->
        IF i <= Len(row) /\ StringWidth(row[i]) > cw[i] THEN StringWidth(row[i]) ELSE cw[i]]

RECURSIVE updateColumnWidthsForRows(_, _)
(* the loop of calculateColumnWidths over t.rows *)
updateColumnWidthsForRows(cw, rs) ==
    IF rs = <<>> THEN cw
    ELSE updateColumnWidthsForRows(updateColumnWidthsForRow(cw, Head(rs)), Tail(rs))

calculateColumnWidths(cw, hs, rs) ==
    LET made == IF Len(cw) = 0 THEN [i \in 1 .. Len(hs) |-> 0] ELSE cw
        seeded == [i \in 1 .. Len(made) |->
                      IF i <= Len(hs) THEN StringWidth(hs[i]) ELSE made[i]]
    IN  updateColumnWidthsForRows(seeded, rs)

(* The cells, headers, rows and explicit widths the callers pass. *)
Cell0 == <<>>
Cell1 == <<"a">>
Cell2 == <<"WIDE">>
Cell3 == <<"a", "WIDE">>
Cell4 == <<"WIDE", "WIDE">>
HeaderInputs == {<<>>, <<Cell2>>, <<Cell1, Cell2>>, <<Cell1, Cell1, Cell3>>}
RowInputs == {<<>>, <<Cell1>>, <<Cell3, Cell1>>, <<Cell2, Cell4, Cell1>>}
WidthInputs == {<<>>, <<2>>, <<1, 3>>, <<0, 2, 5>>}

Headers(hs) ==
    /\ headers' = hs
    /\ columnWidths' = IF Len(columnWidths) = 0
                       THEN [i \in 1 .. Len(hs) |-> StringWidth(hs[i])]
                       ELSE columnWidths
    /\ alignment' = IF Len(alignment) < Len(hs)
                    THEN alignment \o [i \in 1 .. Len(hs) - Len(alignment) |-> "AlignLeft"]
                    ELSE alignment
    /\ tableOp' = "Headers"
    /\ explicitSet' = FALSE
    /\ explicitWidths' = <<>>
    /\ UNCHANGED <<rows, tableBorder, autoSized, tableOutput, textVars, boxVars, spinnerVars, widgetVars>>

Rows(rs) ==
    /\ rows' = rs
    /\ columnWidths' = calculateColumnWidths(columnWidths, headers, rs)
    /\ tableOp' = "Rows"
    /\ UNCHANGED <<headers, alignment, tableBorder, explicitSet, explicitWidths, autoSized,
                   tableOutput, textVars, boxVars, spinnerVars, widgetVars>>

AddRow(row) ==
    /\ Len(rows) < MaxRows
    /\ rows' = Append(rows, row)
    /\ columnWidths' = updateColumnWidthsForRow(columnWidths, row)
    /\ tableOp' = "AddRow"
    /\ UNCHANGED <<headers, alignment, tableBorder, explicitSet, explicitWidths, autoSized,
                   tableOutput, textVars, boxVars, spinnerVars, widgetVars>>

ColumnWidths(ws) ==
    /\ columnWidths' = ws
    /\ tableOp' = "ColumnWidths"
    /\ explicitSet' = (rows = <<>> /\ ws # <<>>)
    /\ explicitWidths' = IF rows = <<>> /\ ws # <<>> THEN ws ELSE <<>>
    /\ autoSized' = FALSE
    /\ UNCHANGED <<headers, rows, alignment, tableBorder, tableOutput, textVars, boxVars, spinnerVars, widgetVars>>

TableNext ==
    \/ \E hs \in HeaderInputs : Headers(hs)
    \/ \E rs \in SeqsUpTo(RowInputs, MaxRows) : Rows(rs)
    \/ \E row \in RowInputs : AddRow(row)
    \/ \E ws \in WidthInputs : ColumnWidths(ws)

-----------------------------------------------------------------------------
(* ui: Table.Render.  As for the box, the model keeps the sequence of lines
   that Render joins with newlines, and the empty string it returns for a
   table without headers is a sequence of that one string.  The colours of
   the header, the rows and the alternate rows differ in their escape
   sequences only, which Sprint does not tell apart.  No table of the model
   is hidden. *)

getAlignment(colIndex) ==
    IF colIndex < Len(alignment) THEN alignment[colIndex + 1] ELSE "AlignLeft"

(* the cell of column i, counted from 0, of renderRow and renderRowNoBorder:
   truncated if too long, then padded *)
paddedCell(cells, i) ==
    LET w == columnWidths[i + 1]
        cell == IF i < Len(cells) THEN cells[i + 1] ELSE <<>>
        cut == IF StringWidth(cell) > w THEN Truncate(cell, w, Ellipsis) ELSE cell
    IN  PadText(cut, w, getAlignment(i))

RECURSIVE borderParts(_, _)
(* the loop of renderTopBorder, renderBottomBorder and renderSeparator over
   the columns from i on, counted from 0, with the glyph that joins two
   columns *)
borderParts(i, joint) ==
    IF i >= Len(columnWidths) THEN <<>>
    ELSE (IF i > 0 THEN Sprint(<<joint>>) ELSE <<>>)
            \o Sprint(Repeat(<<"H">>, columnWidths[i + 1] + 2))
            \o borderParts(i + 1, joint)

renderTopBorder == Sprint(<<"TL">>) \o borderParts(0, "TT") \o Sprint(<<"TR">>)

renderBottomBorder == Sprint(<<"BL">>) \o borderParts(0, "TB") \o Sprint(<<"BR">>)

renderSeparator == Sprint(<<"TEE">>) \o borderParts(0, "X") \o Sprint(<<"TER">>)

(* a strings.Repeat call of the three border lines has a negative count *)
borderPanics == \E i \in 1 .. Len(columnWidths) : RepeatPanics(columnWidths[i] + 2)

RECURSIVE rowParts(_, _)
(* the loop of renderRow over the columns from i on *)
rowParts(cells, i) ==
    IF i >= Len(columnWidths) THEN <<>>
    ELSE Space \o Sprint(paddedCell(cells, i)) \o Space \o Sprint(<<"V">>)
            \o rowParts(cells, i + 1)

renderRow(cells) == Sprint(<<"V">>) \o rowParts(cells, 0)

RECURSIVE rowPartsNoBorder(_, _)
(* the loop of renderRowNoBorder over the columns from i on, joined by spaces *)
rowPartsNoBorder(cells, i) ==
    IF i >= Len(columnWidths) THEN <<>>
    ELSE (IF i > 0 THEN Space ELSE <<>>) \o Sprint(paddedCell(cells, i))
            \o rowPartsNoBorder(cells, i + 1)

renderRowNoBorder(cells) == rowPartsNoBorder(cells, 0)

RECURSIVE SumWidths(_)
(* the loop of getTotalWidth *)
SumWidths(ws) == IF ws = <<>> THEN 0 ELSE Head(ws) + SumWidths(Tail(ws))

getTotalWidth ==
    SumWidths(columnWidths) + (IF Len(columnWidths) > 1 THEN Len(columnWidths) - 1 ELSE 0)

(* the lines Render joins *)
renderLines ==
    IF Len(headers) = 0 THEN << <<>> >>
    ELSE IF tableBorder
    THEN <<renderTopBorder, renderRow(headers), renderSeparator>>
            \o [i \in 1 .. Len(rows) |-> renderRow(rows[i])]
            \o <<renderBottomBorder>>
    ELSE <<renderRowNoBorder(headers), Repeat(<<"-">>, getTotalWidth)>>
            \o [i \in 1 .. Len(rows) |-> renderRowNoBorder(rows[i])]

(* a strings.Repeat call of Render has a negative count *)
renderPanics ==
    IF Len(headers) = 0 THEN FALSE
    ELSE IF tableBorder THEN borderPanics
    ELSE RepeatPanics(getTotalWidth)

(* Table.Render recalculating the column widths before it draws *)
TableRenderRecalculating ==
    /\ tableRenders < MaxRenders
    /\ tableRenders' = tableRenders + 1
    /\ tableOp' = "Render"
    /\ columnWidths' = calculateColumnWidths(columnWidths, headers, rows)
    /\ tablePanicked' = renderPanics
    /\ tableRendered' = IF renderPanics THEN <<>> ELSE renderLines
    /\ UNCHANGED <<headers, rows, alignment, tableBorder, explicitSet, explicitWidths,
                   autoSized, textVars, boxVars, spinnerVars, widgetVars>>

TableRender ==
    /\ tableRenders < MaxRenders
    /\ tableRenders' = tableRenders + 1
    /\ tableOp' = "Render"
    /\ tablePanicked' = renderPanics
    /\ tableRendered' = IF renderPanics THEN <<>> ELSE renderLines
    /\ UNCHANGED <<tableConfig, explicitSet, explicitWidths, autoSized, textVars, boxVars,
                   spinnerVars, widgetVars>>

(* The configurations the builder calls Headers, Rows, ColumnWidths, Alignment
   and Border leave a table in: its column widths are the ones Headers and
   Rows calculated, or the ones a later ColumnWidths call set. *)
AlignmentInputs == {<<"AlignLeft">>, <<"AlignCenter", "AlignRight">>}
RenderWidthInputs == WidthInputs \cup {<<0 - 1>>, <<3, 0 - 3>>}

TableConfigured ==
    /\ headers \in HeaderInputs
    /\ rows \in SeqsUpTo(RowInputs, MaxRows)
    /\ columnWidths \in {calculateColumnWidths(<<>>, headers, rows)} \cup RenderWidthInputs
    /\ alignment \in AlignmentInputs
    /\ tableBorder \in BOOLEAN
    /\ tableOp = "Border"
    /\ explicitSet = FALSE
    /\ explicitWidths = <<>>
    /\ autoSized = (columnWidths = calculateColumnWidths(<<>>, headers, rows))
    /\ tableRenders = 0
    /\ tableRendered = <<>>
    /\ tablePanicked = FALSE

-----------------------------------------------------------------------------
(* ui: Box *)

(* Render returns strings.Join(result, "\n").  The model keeps the sequence
   result of lines that are joined; a string returned whole (the content of a
   box too small to draw) is a sequence of that one string. *)

RECURSIVE MaxLineWidth(_, _)
(* the loop of calculateWidth over the lines of the content *)
MaxLineWidth(ls, maxWidth) ==
    IF ls = <<>> THEN maxWidth
    ELSE MaxLineWidth(Tail(ls),
                      IF StringWidth(Head(ls)) > maxWidth THEN StringWidth(Head(ls))
                      ELSE maxWidth)

calculateWidth ==
    MaxLineWidth(Split(content, "NL"), StringWidth(title)) + (padding * 2) + 2

RECURSIVE CountLines(_, _)
(* the loop of calculateHeight over the lines of the content *)
CountLines(ls, contentWidth) ==
    IF ls = <<>> THEN 0
    ELSE LET line == Head(ls)
             wrappedLines == (StringWidth(line) + contentWidth - 1) \div contentWidth
         IN  (IF line = <<>> THEN 1
              ELSE IF wrappedLines = 0 THEN 1 ELSE wrappedLines)
             + CountLines(Tail(ls), contentWidth)

calculateHeight(w) ==
    LET contentWidth == IF w - (padding * 2) - 2 <= 0 THEN 1 ELSE w - (padding * 2) - 2
        totalLines == CountLines(Split(content, "NL"), contentWidth)
    IN  totalLines + (padding * 2) + 2 + (IF title # <<>> THEN 1 ELSE 0)

RECURSIVE WrapLines(_, _)
(* the loop of wrapContent over the lines of the content *)
WrapLines(ls, w) ==
    IF ls = <<>> THEN <<>>
    ELSE (IF Fields(Head(ls)) = <<>> THEN << <<>> >>
          ELSE WrapWords(Fields(Head(ls)), w, <<>>, <<>>))
         \o WrapLines(Tail(ls), w)

wrapContent(w) ==
    IF w <= 0 THEN <<content>> ELSE WrapLines(Split(content, "NL"), w)

(* the top border with the odd leftover column on the left of the title *)
topLineLeftHeavy(w) ==
    IF title # <<>>
    THEN LET availableWidth == w - 2
             maxTitleWidth == availableWidth - 4
             tooWide == StringWidth(title) > maxTitleWidth
             titleStr == IF tooWide THEN Truncate(title, maxTitleWidth, Ellipsis) ELSE title
             titleWidth == IF tooWide THEN maxTitleWidth ELSE StringWidth(title)
             totalPadding == availableWidth - titleWidth - 4
             rightPadding == totalPadding \div 2
             leftPadding == totalPadding - rightPadding
         IN  Sprint(<<"TL">>) \o Repeat(Sprint(<<"H">>), leftPadding)
                \o Sprint(<<"[", "SP">>) \o Sprint(titleStr) \o Sprint(<<"SP", "]">>)
                \o Repeat(Sprint(<<"H">>), rightPadding) \o Sprint(<<"TR">>)
    ELSE Sprint(<<"TL">>) \o Repeat(Sprint(<<"H">>), w - 2) \o Sprint(<<"TR">>)

topLine(w) ==
    IF title # <<>>
    THEN LET availableWidth == w - 2
             maxTitleWidth == availableWidth - 4
             tooWide == StringWidth(title) > maxTitleWidth
             titleStr == IF tooWide THEN Truncate(title, maxTitleWidth, Ellipsis) ELSE title
             titleWidth == IF tooWide THEN maxTitleWidth ELSE StringWidth(title)
             totalPadding == availableWidth - titleWidth - 4
             leftPadding == totalPadding \div 2
             rightPadding == totalPadding - leftPadding
         IN  Sprint(<<"TL">>) \o Repeat(Sprint(<<"H">>), leftPadding)
                \o Sprint(<<"[", "SP">>) \o Sprint(titleStr) \o Sprint(<<"SP", "]">>)
                \o Repeat(Sprint(<<"H">>), rightPadding) \o Sprint(<<"TR">>)
    ELSE Sprint(<<"TL">>) \o Repeat(Sprint(<<"H">>), w - 2) \o Sprint(<<"TR">>)

paddingLine(w) == Sprint(<<"V">>) \o Repeat(Space, w - 2) \o Sprint(<<"V">>)

bottomLine(w) == Sprint(<<"BL">>) \o Repeat(Sprint(<<"H">>), w - 2) \o Sprint(<<"BR">>)

(* one interior row of renderWithBorder: row i, counted from 0 *)
contentLine(contentLines, contentWidth, i) ==
    LET line == IF i < Len(contentLines) THEN Sprint(contentLines[i + 1]) ELSE <<>>
        pad == contentWidth - StringWidth(StripANSI(line))
    IN  Sprint(<<"V">>) \o Repeat(Space, padding)
           \o line \o (IF pad > 0 THEN Repeat(Space, pad) ELSE <<>>)
           \o Repeat(Space, padding) \o Sprint(<<"V">>)

renderWithBorder(w, h) ==
    IF w < 3 \/ h < 3 THEN <<content>>
    ELSE LET contentWidth == IF w - 2 - (padding * 2) <= 0 THEN 1 ELSE w - 2 - (padding * 2)
             contentLines == wrapContent(contentWidth)
             contentHeight == (h - 2) - padding
             nRows == IF contentHeight - padding > 0 THEN contentHeight - padding ELSE 0
         IN  <<topLine(w)>>
                \o [i \in 1 .. padding |-> paddingLine(w)]
                \o [i \in 1 .. nRows |-> contentLine(contentLines, contentWidth, i - 1)]
                \o [i \in 1 .. padding |-> paddingLine(w)]
                \o <<bottomLine(w)>>

renderWithoutBorder(w, h) ==
    LET contentWidth == IF w - (padding * 2) <= 0 THEN w ELSE w - (padding * 2)
        contentLines == wrapContent(contentWidth)
    IN  (IF title # <<>> THEN <<Sprint(title)>> ELSE <<>>)
           \o [i \in 1 .. Len(contentLines) |->
                  Repeat(Space, padding) \o Sprint(contentLines[i])]

(* The configurations the builder calls Title, Content, Padding, Width, Height
   and Border leave a shown box in. *)
TitleInputs == {<<>>, <<"a">>, <<"a", "a">>, <<"WIDE", "WIDE">>, <<"a", "WIDE", "a", "a">>}
ContentGlyphs == {"a", "SP", "NL"}
(* four words of three letters: a content that wraps to more lines than its
   width divided by the content width *)
LongContent ==
    <<"a", "a", "a", "SP", "a", "a", "a", "SP", "a", "a", "a", "SP", "a", "a", "a">>
ContentInputs == SeqsUpTo(ContentGlyphs, MaxContentLen) \cup {LongContent}
BoxWidthInputs == {-1, 2, 3, 4, 7, 9}
BoxHeightInputs == {-1, 3, 5}

BoxInit ==
    /\ title \in TitleInputs
    /\ content \in ContentInputs
    /\ padding \in 0 .. MaxPadding
    /\ border \in BOOLEAN
    /\ boxWidth \in BoxWidthInputs
    /\ boxHeight \in BoxHeightInputs
    /\ boxOp = "NewBox"
    /\ resolvedWidth = 0
    /\ resolvedHeight = 0
    /\ rendered = <<>>
    /\ boxRenders = 0
    /\ boxPanicked = FALSE

BoxIdle ==
    /\ title = <<>>
    /\ content = <<>>
    /\ padding = 1
    /\ border = TRUE
    /\ boxWidth = -1
    /\ boxHeight = -1
    /\ boxOp = "NewBox"
    /\ resolvedWidth = 0
    /\ resolvedHeight = 0
    /\ rendered = <<>>
    /\ boxRenders = 0
    /\ boxPanicked = FALSE

(* a strings.Repeat call of renderWithBorder has a negative count *)
renderWithBorderPanics(w, h) ==
    IF w < 3 \/ h < 3 THEN FALSE
    ELSE LET availableWidth == w - 2
             maxTitleWidth == availableWidth - 4
             titleWidth == IF StringWidth(title) > maxTitleWidth THEN maxTitleWidth
                           ELSE StringWidth(title)
             totalPadding == availableWidth - titleWidth - 4
             leftPadding == totalPadding \div 2
             rightPadding == totalPadding - leftPadding
         IN  \/ title # <<>> /\ (RepeatPanics(leftPadding) \/ RepeatPanics(rightPadding))
             \/ RepeatPanics(w - 2)
             \/ RepeatPanics(padding)

(* the strings.Repeat call of renderWithoutBorder has a negative count *)
renderWithoutBorderPanics == RepeatPanics(padding)

BoxRender ==
    LET w == IF boxWidth <= 0 THEN calculateWidth ELSE boxWidth
        h == IF boxHeight <= 0 THEN calculateHeight(w) ELSE boxHeight
        panics == IF border THEN renderWithBorderPanics(w, h) ELSE renderWithoutBorderPanics
    IN  /\ boxRenders < MaxRenders
        /\ boxRenders' = boxRenders + 1
        /\ boxOp' = "Render"
        /\ resolvedWidth' = w
        /\ resolvedHeight' = h
        /\ boxPanicked' = panics
        /\ rendered' = IF panics THEN <<>>
                       ELSE IF border THEN renderWithBorder(w, h)
                       ELSE renderWithoutBorder(w, h)
        /\ UNCHANGED <<boxConfig, textVars, tableVars, spinnerVars, widgetVars>>

BoxNext == BoxRender

(* The boxes rendered beside the tables: the sizes include zero and negative
   explicit widths and heights. *)
RenderContentInputs == {<<>>, <<"a">>, <<"a", "NL", "a", "a">>, LongContent}

BoxConfigured ==
    /\ title \in TitleInputs
    /\ content \in RenderContentInputs
    /\ padding \in 0 .. MaxPadding
    /\ border \in BOOLEAN
    /\ boxWidth \in BoxWidthInputs \cup {0, 0 - 2}
    /\ boxHeight \in BoxHeightInputs \cup {0, 0 - 2}
    /\ boxOp = "NewBox"
    /\ resolvedWidth = 0
    /\ resolvedHeight = 0
    /\ rendered = <<>>
    /\ boxRenders = 0
    /\ boxPanicked = FALSE

-----------------------------------------------------------------------------
(* ux: Spinner.  Start spawns the repaint goroutine, which loops over a
   select on the stop channel with a default case that prints a frame and
   sleeps; Stop closes the channel and blanks the line.  The steps of the two
   goroutines interleave. *)

(* the lengths of the frame lists of spinnerFrames *)
SpinnerFrameCounts == {4, 8, 10, 12}
SpinnerTexts == {<<>>, <<"a", "a">>}

NewSpinner ==
    /\ frames \in SpinnerFrameCounts
    /\ spinnerText = <<>>
    /\ stop = "open"
    /\ caller = "new"
    /\ stopMethod = "none"
    /\ goroutine = "none"
    /\ frame = 0
    /\ screen = <<"nothing">>
    /\ framesAfterStop = 0

(* no spinner in use: one made and left alone *)
SpinnerIdle ==
    /\ frames = 10
    /\ spinnerText = <<>>
    /\ stop = "open"
    /\ caller = "new"
    /\ stopMethod = "none"
    /\ goroutine = "none"
    /\ frame = 0
    /\ screen = <<"nothing">>
    /\ framesAfterStop = 0

Start(t) ==
    /\ caller = "new"
    /\ caller' = "spinning"
    /\ spinnerText' = t
    /\ goroutine' = "select"
    /\ frame' = 0
    /\ UNCHANGED <<frames, stopMethod, stop, screen, framesAfterStop, textVars, tableVars, boxVars, widgetVars>>

(* the select of the repaint loop always taking its default case *)
GoSelectNeverStopped ==
    /\ goroutine = "select"
    /\ goroutine' = "print"
    /\ UNCHANGED <<frames, stopMethod, spinnerText, stop, caller, frame, screen, framesAfterStop,
                   textVars, tableVars, boxVars, widgetVars>>

(* the select of the repaint loop: a closed channel is ready to receive from,
   and the default case is taken only when no other case is ready *)
GoSelect ==
    /\ goroutine = "select"
    /\ goroutine' = IF stop = "closed" THEN "exited" ELSE "print"
    /\ UNCHANGED <<frames, stopMethod, spinnerText, stop, caller, frame, screen, framesAfterStop,
                   textVars, tableVars, boxVars, widgetVars>>

(* the default case: the frame is printed *)
GoPrint ==
    /\ goroutine = "print"
    /\ goroutine' = "sleep"
    /\ screen' = <<"frame", frame>>
    /\ framesAfterStop' = IF stop = "closed" /\ framesAfterStop < MaxFramesAfterStop
                          THEN framesAfterStop + 1 ELSE framesAfterStop
    /\ UNCHANGED <<frames, stopMethod, spinnerText, stop, caller, frame, textVars, tableVars, boxVars, widgetVars>>

(* the default case: time.Sleep returns and i is incremented (only i % len(s.frames) is ever read) *)
GoSleep ==
    /\ goroutine = "sleep"
    /\ goroutine' = "select"
    /\ frame' = (frame + 1) % frames
    /\ UNCHANGED <<frames, stopMethod, spinnerText, stop, caller, screen, framesAfterStop,
                   textVars, tableVars, boxVars, widgetVars>>

StopMethods == {"Stop", "Success", "Error", "Warning", "Info"}

(* Stop, called by the caller or by Success, Error, Warning or Info:
   close(s.stop).  Closing a closed channel panics; the panic unwinds the
   calling goroutine, and the repaint goroutine runs on while the program
   does. *)
StopClose(m) ==
    /\ caller \in {"spinning", "stopped"}
    /\ stopMethod' = m
    /\ caller' = IF stop = "closed" THEN "panicked" ELSE "stopping"
    /\ stop' = "closed"
    /\ UNCHANGED <<frames, spinnerText, goroutine, frame, screen, framesAfterStop,
                   textVars, tableVars, boxVars, widgetVars>>

(* Stop: the line is overwritten with spaces; Success, Error, Warning and
   Info then print their message *)
StopClear ==
    /\ caller = "stopping"
    /\ caller' = "stopped"
    /\ screen' = IF stopMethod = "Stop" THEN <<"blank">> ELSE <<"message", stopMethod>>
    /\ UNCHANGED <<frames, stopMethod, spinnerText, stop, goroutine, frame, framesAfterStop,
                   textVars, tableVars, boxVars, widgetVars>>

(* the steps of the repaint goroutine *)
Repaint == GoSelect \/ GoPrint \/ GoSleep

SpinnerNext ==
    \/ \E t \in SpinnerTexts : Start(t)
    \/ GoSelect
    \/ GoPrint
    \/ GoSleep
    \/ \E m \in StopMethods : StopClose(m)
    \/ StopClear

-----------------------------------------------------------------------------
(* input: Prompt.  Run loops: it shows the prompt, reads a line, trims it,
   puts the default in the place of an empty answer, and either returns or
   prints a failure and asks again.  The transformer and the validator are
   functions the caller supplies. *)

RECURSIVE TrimLeft(_)
TrimLeft(s) == IF s # <<>> /\ IsSpace(Head(s)) THEN TrimLeft(Tail(s)) ELSE s

RECURSIVE TrimRight(_)
TrimRight(s) ==
    IF s # <<>> /\ IsSpace(s[Len(s)]) THEN TrimRight(SubSeq(s, 1, Len(s) - 1)) ELSE s

(* strings.TrimSpace *)
TrimSpace(s) == TrimRight(TrimLeft(s))

(* The transformers callers set: none, strings.ToUpper, and one that strips
   the hyphens from its argument. *)
Transformers == {"nil", "ToUpper", "StripHyphens"}

RECURSIVE StripHyphens(_)
StripHyphens(s) ==
    IF s = <<>> THEN <<>>
    ELSE (IF Head(s) = "-" THEN <<>> ELSE <<Head(s)>>) \o StripHyphens(Tail(s))

transform(t, s) ==
    CASE t = "ToUpper" -> [k \in 1 .. Len(s) |-> IF s[k] = "a" THEN "A" ELSE s[k]]
      [] t = "StripHyphens" -> StripHyphens(s)
      [] OTHER -> s

(* The validators callers set: none, and one that refuses a space inside
   the answer. *)
Validators == {"nil", "NoSpace"}

validate(v, s) ==
    IF v = "NoSpace" /\ \E k \in 1 .. Len(s) : s[k] = "SP" THEN "error" ELSE "nil"

InputGlyphs == {"a", "-", "SP"}
InputLines == SeqsUpTo(InputGlyphs, MaxInputLen)
DefaultInputs == {<<>>, <<"a">>, <<"-">>}

(* no prompt in use: one made and left alone *)
PromptIdle ==
    /\ defaultValue = <<>>
    /\ required = FALSE
    /\ transformer = "nil"
    /\ validator = "nil"
    /\ promptPc = "new"
    /\ reads = 0
    /\ promptMessage = "none"
    /\ result = <<>>
    /\ resultErr = "nil"

(* the prompts the builder calls Default, Required, Transformer and
   Validator leave *)
NewPrompt ==
    /\ defaultValue \in DefaultInputs
    /\ required \in BOOLEAN
    /\ transformer \in Transformers
    /\ validator \in Validators
    /\ promptPc = "new"
    /\ reads = 0
    /\ promptMessage = "none"
    /\ result = <<>>
    /\ resultErr = "nil"

(* Run is called and shows the prompt *)
Run ==
    /\ promptPc = "new"
    /\ promptPc' = "reading"
    /\ UNCHANGED <<promptConfig, reads, promptMessage, result, resultErr,
                   textVars, tableVars, boxVars, spinnerVars, menuVars, barVars>>

(* one pass of the loop of Run in which ReadString returns the line *)
RunRead(line) ==
    LET trimmed == TrimSpace(line)
        input == IF trimmed = <<>> /\ defaultValue # <<>> THEN defaultValue ELSE trimmed
        missing == required /\ input = <<>>
        transformed == IF transformer # "nil" THEN transform(transformer, input) ELSE input
        invalid == validator # "nil" /\ validate(validator, transformed) # "nil"
    IN  /\ promptPc = "reading"
        /\ reads < MaxReads
        /\ reads' = reads + 1
        /\ promptPc' = IF missing \/ invalid THEN "reading" ELSE "returned"
        /\ promptMessage' = IF missing THEN "required"
                            ELSE IF invalid THEN "invalid" ELSE promptMessage
        /\ result' = IF missing \/ invalid THEN result ELSE transformed
        /\ UNCHANGED <<promptConfig, resultErr, textVars, tableVars, boxVars, spinnerVars, menuVars, barVars>>

(* one pass of the loop of Run in which ReadString returns an error *)
RunReadError ==
    /\ promptPc = "reading"
    /\ promptPc' = "returned"
    /\ result' = <<>>
    /\ resultErr' = "read error"
    /\ UNCHANGED <<promptConfig, reads, promptMessage, textVars, tableVars, boxVars,
                   spinnerVars, menuVars, barVars>>

PromptNext ==
    \/ Run
    \/ \E line \in InputLines : RunRead(line)
    \/ RunReadError

-----------------------------------------------------------------------------
(* ui: Menu.  The calls that set the options and the ones that move the
   selection. *)

OptionNames == {"x", "y", "z"}
OptionLists == SeqsUpTo(OptionNames, MaxOptions)

(* the orders in which a range over a map with these keys can visit them *)
MapOrders(keys) ==
    {f \in [1 .. Cardinality(keys) -> keys] :
        \A j, k \in 1 .. Cardinality(keys) : f[j] = f[k] => j = k}

NewMenu ==
    /\ options = <<>>
    /\ descriptions = <<>>
    /\ selected = 0

Options(opts) ==
    /\ options' = opts
    /\ UNCHANGED <<descriptions, selected, textVars, tableVars, boxVars, spinnerVars,
                   promptVars, barVars>>

OptionsWithDesc(optionsDesc) ==
    /\ \E order \in MapOrders(optionsDesc) :
          /\ options' = order
          /\ descriptions' = [k \in 1 .. Len(order) |-> <<"desc", order[k]>>]
    /\ UNCHANGED <<selected, textVars, tableVars, boxVars, spinnerVars, promptVars, barVars>>

Selected(index) ==
    /\ selected' = IF index >= 0 /\ index < Len(options) THEN index ELSE selected
    /\ UNCHANGED <<options, descriptions, textVars, tableVars, boxVars, spinnerVars,
                   promptVars, barVars>>

SelectByIndex(index) ==
    /\ selected' = IF index >= 0 /\ index < Len(options) THEN index ELSE selected
    /\ UNCHANGED <<options, descriptions, textVars, tableVars, boxVars, spinnerVars,
                   promptVars, barVars>>

(* the first index, from 0, at which the option stands *)
SelectByOption(option) ==
    LET at == {k \in 1 .. Len(options) : options[k] = option}
    IN  /\ selected' = IF at = {} THEN selected
                       ELSE (CHOOSE k \in at : \A j \in at : k <= j) - 1
        /\ UNCHANGED <<options, descriptions, textVars, tableVars, boxVars, spinnerVars,
                       promptVars, barVars>>

SelectNext ==
    /\ selected' = IF Len(options) > 0 THEN (selected + 1) % Len(options) ELSE selected
    /\ UNCHANGED <<options, descriptions, textVars, tableVars, boxVars, spinnerVars,
                   promptVars, barVars>>

SelectPrev ==
    /\ selected' = IF Len(options) > 0
                       THEN (selected - 1 + Len(options)) % Len(options)
                       ELSE selected
    /\ UNCHANGED <<options, descriptions, textVars, tableVars, boxVars, spinnerVars,
                   promptVars, barVars>>

GetSelectedOption ==
    IF selected >= 0 /\ selected < Len(options) THEN <<options[selected + 1]>> ELSE <<>>

MenuIndexes == (0 - 1) .. MaxOptions

MenuNext ==
    \/ \E opts \in OptionLists : Options(opts)
    \/ \E optionsDesc \in SUBSET OptionNames : OptionsWithDesc(optionsDesc)
    \/ \E index \in MenuIndexes : Selected(index)
    \/ \E index \in MenuIndexes : SelectByIndex(index)
    \/ \E option \in OptionNames : SelectByOption(option)
    \/ SelectNext
    \/ SelectPrev

-----------------------------------------------------------------------------
(* ProgressBar.  Render draws, between the caps, the filled cells "FILL" in
   one colour and the empty cells "EMPTY" in another.  The prefix, the
   percentage, the numbers and the suffix it writes outside the caps are
   left out. *)

(* int(x) of a quotient of integers: Go truncates towards zero *)
TruncDiv(a, b) == IF a >= 0 THEN a \div b ELSE 0 - ((0 - a) \div b)

RenderBar(w, cur, tot) ==
    IF tot = 0 THEN <<"[", "a", "]">>
    ELSE LET filledWidth == TruncDiv(w * cur, tot)
             emptyWidth == w - filledWidth
             filled == IF filledWidth > 0
                          THEN Sprint([k \in 1 .. filledWidth |-> "FILL"])
                          ELSE <<>>
             empty == IF emptyWidth > 0
                         THEN Sprint([k \in 1 .. emptyWidth |-> "EMPTY"])
                         ELSE <<>>
         IN  <<"[">> \o filled \o empty \o <<"]">>

BarWidths == 1 .. MaxBarWidth
BarTotals == 0 .. MaxTotal
BarValues == (0 - MaxNeg) .. MaxCurrent

(* no progress bar in use: one made and left alone *)
BarIdle ==
    /\ barWidth = MaxBarWidth
    /\ total = 0
    /\ current = 0
    /\ completed = FALSE
    /\ barOut = <<"nothing">>

(* NewProgressBar(width).SetTotal(total) *)
NewProgressBar ==
    /\ barWidth \in BarWidths
    /\ total \in BarTotals
    /\ current = 0
    /\ completed = FALSE
    /\ barOut = <<"nothing">>

Update(cur) ==
    /\ current' = cur
    /\ barOut' = RenderBar(barWidth, cur, total)
    /\ UNCHANGED <<barWidth, total, completed, textVars, tableVars, boxVars, spinnerVars,
                   promptVars, menuVars>>

Complete ==
    /\ current' = total
    /\ completed' = TRUE
    /\ barOut' = RenderBar(barWidth, total, total)
    /\ UNCHANGED <<barWidth, total, textVars, tableVars, boxVars, spinnerVars,
                   promptVars, menuVars>>

Render ==
    /\ barOut' = RenderBar(barWidth, current, total)
    /\ UNCHANGED <<barWidth, total, current, completed, textVars, tableVars, boxVars,
                   spinnerVars, promptVars, menuVars>>

SetCurrent(cur) ==
    /\ current' = cur
    /\ UNCHANGED <<barWidth, total, completed, barOut, textVars, tableVars, boxVars,
                   spinnerVars, promptVars, menuVars>>

Increment ==
    /\ current' = IF current + 1 > total THEN total ELSE current + 1
    /\ UNCHANGED <<barWidth, total, completed, barOut, textVars, tableVars, boxVars,
                   spinnerVars, promptVars, menuVars>>

(* the sum is kept within the values of the model *)
IncrementBy(amount) ==
    /\ current + amount >= 0 - MaxNeg
    /\ current' = IF current + amount > total THEN total ELSE current + amount
    /\ UNCHANGED <<barWidth, total, completed, barOut, textVars, tableVars, boxVars,
                   spinnerVars, promptVars, menuVars>>

BarNext ==
    \/ \E cur \in BarValues : Update(cur)
    \/ \E cur \in BarValues : SetCurrent(cur)
    \/ Increment
    \/ \E amount \in BarValues : IncrementBy(amount)
    \/ Complete
    \/ Render

-----------------------------------------------------------------------------
(* The specifications *)

(* the layout engine, with no table in use *)
Init == TextInit /\ NewTable /\ BoxIdle /\ SpinnerIdle /\ PromptIdle /\ NewMenu /\ BarIdle

Spec == Init /\ [][Next]_vars

(* a table being built, with no layout operation in use *)
TextIdle ==
    /\ text = <<>>
    /\ width = 0
    /\ op = "none"
    /\ arg = "none"
    /\ out = <<>>

TableInit == TextIdle /\ NewTable /\ BoxIdle /\ SpinnerIdle /\ PromptIdle /\ NewMenu /\ BarIdle

TableSpec == TableInit /\ [][TableNext]_vars

(* a box being rendered, with no layout operation and no table in use *)
BoxSpecInit == TextIdle /\ NewTable /\ BoxInit /\ SpinnerIdle /\ PromptIdle /\ NewMenu /\ BarIdle

BoxSpec == BoxSpecInit /\ [][BoxNext]_vars

(* a configured table, or a configured box, rendered, and rendered again; the
   other component is as its constructor made it *)
RenderInit ==
    /\ TextIdle
    /\ (TableConfigured /\ BoxIdle) \/ (NewTable /\ BoxConfigured)
    /\ SpinnerIdle
    /\ PromptIdle
    /\ NewMenu
    /\ BarIdle

RenderNext == TableRender \/ BoxRender

RenderSpec == RenderInit /\ [][RenderNext]_vars

(* a spinner started and stopped, with no layout operation, table or box in
   use *)
SpinnerInit == TextIdle /\ NewTable /\ BoxIdle /\ NewSpinner /\ PromptIdle /\ NewMenu /\ BarIdle

SpinnerSpec == SpinnerInit /\ [][SpinnerNext]_vars

(* The Go scheduler runs a runnable goroutine in the end, and time.Sleep
   returns: the repaint goroutine, once spawned, takes its next step.  The
   caller is under no obligation to call Stop. *)
SpinnerFairSpec == SpinnerSpec /\ WF_vars(Repaint)

(* a prompt run, with nothing else in use *)
PromptInit == TextIdle /\ NewTable /\ BoxIdle /\ SpinnerIdle /\ NewPrompt /\ NewMenu /\ BarIdle

PromptSpec == PromptInit /\ [][PromptNext]_vars

(* a menu, with nothing else in use *)
MenuInit == TextIdle /\ NewTable /\ BoxIdle /\ SpinnerIdle /\ PromptIdle /\ NewMenu /\ BarIdle

MenuSpec == MenuInit /\ [][MenuNext]_vars

(* a progress bar, with nothing else in use *)
BarInit ==
    TextIdle /\ NewTable /\ BoxIdle /\ SpinnerIdle /\ PromptIdle /\ NewMenu /\ NewProgressBar

BarSpec == BarInit /\ [][BarNext]_vars

-----------------------------------------------------------------------------
(* Properties of the layout engine *)

RECURSIVE JoinWords(_)
JoinWords(words) ==
    IF words = <<>> THEN <<>>
    ELSE IF Len(words) = 1 THEN words[1]
    ELSE words[1] \o Space \o JoinWords(Tail(words))

(* s has no leading, trailing or repeated whitespace, and no newline *)
Normalised(s) == s = JoinWords(Fields(s))

IsPrefix(p, s) == Len(p) <= Len(s) /\ p = SubSeq(s, 1, Len(p))

(* r is a proper prefix of s followed by one appended ellipsis marker *)
EndsWithOneMarker(r, s) ==
    /\ Len(r) >= 1
    /\ r[Len(r)] = "ELL"
    /\ Len(r) - 1 < Len(s)
    /\ IsPrefix(SubSeq(r, 1, Len(r) - 1), s)

(* C2: for all strings, alignments and widths w >= measure(s), PadText(s, w,
   align) has measured width (escape sequences stripped) exactly w. *)
C2_PadExactWidth ==
    (op = "PadText" /\ width >= MeasureText(text)) => MeasureText(out[1]) = width

(* C3: for every text and width w >= 1, WrapText returns no line whose
   measured width exceeds w. *)
C3_WrapLinesFit ==
    (op = "WrapText" /\ width >= 1) =>
        \A i \in 1 .. Len(out) : MeasureText(out[i]) <= width

(* C4 as claimed: for every string s, whitespace included, and every width w
   with measure(s) <= w, WrapText(s, w) is exactly <<s>>. *)
C4_WrapIdentityAnyString ==
    (op = "WrapText" /\ MeasureText(text) <= width) => out = <<text>>

(* C4 as amended: for every string s whose only whitespace is single spaces
   between words and whose raw width StringWidth(s), escape sequences counted,
   is <= w, WrapText(s, w) is exactly <<s>>. *)
C4_WrapIdentityNormalised ==
    (op = "WrapText" /\ Normalised(text) /\ StringWidth(text) <= width) =>
        out = <<text>>

C4_Witness ==
    /\ op = "WrapText"
    /\ Normalised(text)
    /\ Len(Fields(text)) >= 2
    /\ StringWidth(text) <= width
    /\ out = <<text>>

(* C5: for every string s and budget w >= 1, TruncateText(s, w), and PadText
   where it truncates (the raw width of s is >= w), return a string whose
   measured width, and whose raw width, is <= w. *)
C5_TruncateFits ==
    /\ (op = "TruncateText" /\ width >= 1) =>
          (MeasureText(out[1]) <= width /\ StringWidth(out[1]) <= width)
    /\ (op = "PadText" /\ width >= 1 /\ StringWidth(text) >= width) =>
          (MeasureText(out[1]) <= width /\ StringWidth(out[1]) <= width)

C5_Witness ==
    /\ op = "TruncateText"
    /\ width >= 2
    /\ StringWidth(text) > width
    /\ \E i \in 1 .. Len(text) : text[i] = "WIDE"
    /\ out[1] # <<>>
    /\ out[1][Len(out[1])] = "ELL"
    /\ StringWidth(out[1]) < width

(* C6 as claimed: whenever the measured width of the text exceeds the budget,
   for every budget, zero and negative ones included, the result of
   TruncateText ends with one ellipsis marker and its measured width is <= the
   budget. *)
C6_MarkerForEveryBudget ==
    (op = "TruncateText" /\ MeasureText(text) > width) =>
        (EndsWithOneMarker(out[1], text) /\ MeasureText(out[1]) <= width)

(* C6 as amended: whenever the measured width of the text exceeds a budget
   w >= 1, the result of TruncateText is a proper prefix of the text followed
   by one appended ellipsis marker and its measured width is <= w; for a
   budget w <= 0 the result is the empty string, without a marker. *)
C6_MarkerForPositiveBudget ==
    /\ (op = "TruncateText" /\ width >= 1 /\ MeasureText(text) > width) =>
          (EndsWithOneMarker(out[1], text) /\ MeasureText(out[1]) <= width)
    /\ (op = "TruncateText" /\ width <= 0) => out[1] = <<>>

C6_Witness ==
    /\ op = "TruncateText"
    /\ width >= 2
    /\ MeasureText(text) > width
    /\ Len(out[1]) >= 2
    /\ EndsWithOneMarker(out[1], text)

(* C7: for every string s, glyph c and width w <= 0, PadText(s, w, align)
   returns s unchanged for every alignment, WrapText(s, w) returns <<s>>, and
   RepeatChar(c, w) returns the empty string. *)
C7_DegenerateWidth ==
    width <= 0 =>
        /\ op = "PadText" => out = <<text>>
        /\ op = "WrapText" => out = <<text>>
        /\ op = "RepeatChar" => out = << <<>> >>

C7_Witness ==
    /\ width = 0
    /\ op = "PadText"
    /\ arg = "AlignCenter"
    /\ StringWidth(text) > 0
    /\ out = <<text>>

(* s holds no escape character *)
NoEscape(s) == \A i \in 1 .. Len(s) : s[i] # "ESC"

(* C16: for every text t, painting t (a well-formed escape sequence before
   and after it) leaves the measured width unchanged: stripping the painted
   text gives what stripping t gives, so MeasureText(painted t) =
   MeasureText(t); and StripANSI removes exactly the escape sequences: a text
   with no escape character comes back from painting and stripping as it
   was. *)
C16_DecorationWidthNeutral ==
    (op = "StripANSI" /\ arg = "Sprint") =>
        /\ StringWidth(out[1]) = MeasureText(text)
        /\ MeasureText(Sprint(text)) = MeasureText(text)
        /\ NoEscape(text) => out[1] = text

(* a painted text of wide and narrow glyphs was stripped back to itself *)
C16_Witness ==
    /\ op = "StripANSI"
    /\ arg = "Sprint"
    /\ NoEscape(text)
    /\ \E i \in 1 .. Len(text) : text[i] = "WIDE"
    /\ \E i \in 1 .. Len(text) : text[i] = "a"
    /\ out[1] = text
    /\ StringWidth(Sprint(text)) > StringWidth(text)

(* C18: for every glyph (display width 0, 1 or 2) and every width w > 0, the
   measured width of RepeatChar(glyph, w) is exactly w. *)
C18_RepeatFillsWidth ==
    (op = "RepeatChar" /\ width > 0) => MeasureText(out[1]) = width

(* C19: WrapText returns at least one line for every input and every width,
   and for empty or whitespace-only input with width > 0 exactly one empty
   line. *)
C19_WrapAtLeastOneLine ==
    op = "WrapText" =>
        /\ Len(out) >= 1
        /\ (width > 0 /\ \A i \in 1 .. Len(text) : IsSpace(text[i])) => out = << <<>> >>

(* a whitespace-only text was wrapped to one empty line *)
C19_Witness ==
    /\ op = "WrapText"
    /\ width > 0
    /\ Len(text) >= 2
    /\ \A i \in 1 .. Len(text) : IsSpace(text[i])
    /\ out = << <<>> >>

-----------------------------------------------------------------------------
(* Properties of the table *)

(* C8: no AddRow call decreases the width of any existing column, nor changes
   the number of columns. *)
C8_AddRowMonotonic ==
    [][tableOp' = "AddRow" =>
          /\ Len(columnWidths') = Len(columnWidths)
          /\ \A i \in 1 .. Len(columnWidths) : columnWidths'[i] >= columnWidths[i]]_vars

(* an AddRow call has grown a column beyond its header's width *)
C8_Witness ==
    /\ tableOp = "AddRow"
    /\ Len(rows) >= 2
    /\ \E i \in 1 .. Len(columnWidths) :
          /\ i <= Len(headers)
          /\ columnWidths[i] > StringWidth(headers[i])
          /\ columnWidths[i] = StringWidth(rows[Len(rows)][i])

(* C9: if ColumnWidths(w1..wn) is called before any row is added, then after
   any later sequence of AddRow or Rows calls every column width still equals
   the explicitly supplied value. *)
C9_ExplicitWidthsKept ==
    explicitSet => columnWidths = explicitWidths

(* C25: while ColumnWidths was never called, after any sequence of Headers,
   AddRow and Rows calls in any order, every column is at least as wide as
   its current header and as every cell stored in it, so that no header or
   cell is truncated when rendered. *)
C25_AutoSizedColumnsFit ==
    autoSized =>
        \A c \in 1 .. Len(columnWidths) :
            /\ c <= Len(headers) => columnWidths[c] >= MeasureText(headers[c])
            /\ \A r \in 1 .. Len(rows) :
                  c <= Len(rows[r]) => columnWidths[c] >= MeasureText(rows[r][c])

(* the number of cells renderRow draws for the line of cells: one vertical
   border glyph closes each *)
CellsDrawn(cells) ==
    Cardinality({k \in 1 .. Len(StripANSI(renderRow(cells))) :
                    StripANSI(renderRow(cells))[k] = "V"}) - 1

(* C26: after any sequence of Headers, ColumnWidths, AddRow and Rows calls,
   the number of columns Table.Render draws in the header row and in every
   data row equals the number of current headers (len(columnWidths) ==
   len(headers)). *)
C26_ColumnsDrawnAreHeaders ==
    /\ Len(columnWidths) = Len(headers)
    /\ CellsDrawn(headers) = Len(headers)
    /\ \A r \in 1 .. Len(rows) : CellsDrawn(rows[r]) = Len(headers)

-----------------------------------------------------------------------------
(* Properties of the box *)

(* Render drew a bordered box *)
BoxDrawn == boxOp = "Render" /\ border /\ resolvedWidth >= 3 /\ resolvedHeight >= 3

(* C1: for every bordered Render call that draws a box, for any title,
   content and padding >= 0, every output line has the same measured width,
   the resolved box width. *)
C1_BoxWidthInvariant ==
    BoxDrawn =>
        \A i \in 1 .. Len(rendered) : MeasureText(rendered[i]) = resolvedWidth

(* C10: with auto height, the resolved height is the number of lines
   Box.wrapContent produces for the content width, plus 2*padding + 2, plus 1
   more if a title is present. *)
C10_AutoHeightCountsWrappedLines ==
    (boxOp = "Render" /\ boxHeight <= 0) =>
        LET cw == resolvedWidth - (padding * 2) - 2
        IN  resolvedHeight =
               Len(wrapContent(IF cw <= 0 THEN 1 ELSE cw)) + (padding * 2) + 2
                  + (IF title # <<>> THEN 1 ELSE 0)

(* the rendered rows that begin with the glyph g, colour stripped *)
RowsBeginningWith(g) ==
    {i \in 1 .. Len(rendered) :
        StripANSI(rendered[i]) # <<>> /\ StripANSI(rendered[i])[1] = g}

(* every newline-separated line of the content fits the content width of a
   box of width w *)
ContentLinesFit(w) ==
    LET ls == Split(content, "NL")
    IN  \A i \in 1 .. Len(ls) : StringWidth(ls[i]) <= w - 2 - (padding * 2)

(* C11: for a titled, bordered box with the default padding of NewBox (1), an
   explicit width and auto height, whose content lines each fit the content
   width, the number of rendered rows that begin with the vertical border
   glyph equals the number of newline-separated content lines (one row for
   empty content). *)
C11_NoExtraEmptyLines ==
    (BoxDrawn /\ title # <<>> /\ padding = 1 /\ boxWidth > 0 /\ boxHeight <= 0
        /\ ContentLinesFit(boxWidth)) =>
        Cardinality(RowsBeginningWith("V")) = Len(Split(content, "NL"))

(* the top border, colour stripped *)
TopBorder == StripANSI(rendered[1])

(* C12: for a drawn bordered box of width W whose title of measured width t
   fits (t <= W - 6), the top border is the top-left corner, L horizontal
   glyphs, "[ ", the title, " ]", R horizontal glyphs and the top-right
   corner, with L = floor((W - 6 - t) / 2) and R = (W - 6 - t) - L. *)
C12_TitleCentred ==
    (BoxDrawn /\ title # <<>> /\ MeasureText(title) <= resolvedWidth - 6) =>
        LET leftover == resolvedWidth - 6 - MeasureText(title)
            L == leftover \div 2
            R == leftover - L
        IN  TopBorder = <<"TL">> \o Repeat(<<"H">>, L) \o <<"[", "SP">> \o title
                           \o <<"SP", "]">> \o Repeat(<<"H">>, R) \o <<"TR">>

(* a fitting title with an odd leftover: the extra glyph is on the right *)
C12_Witness ==
    /\ BoxDrawn
    /\ title # <<>>
    /\ (resolvedWidth - 6 - MeasureText(title)) % 2 = 1
    /\ resolvedWidth - 6 - MeasureText(title) >= 1
    /\ TopBorder[Len(TopBorder) - 1] = "H"
    /\ TopBorder[2] = "["

(* C13: for every drawn bordered box (W >= 3) and every title whose measured
   width exceeds W - 6, the top border shows one truncated title that ends
   with an ellipsis and whose measured width is <= W - 6, with no horizontal
   glyph on either side of the brackets. *)
C13_TitleTruncated ==
    (BoxDrawn /\ title # <<>> /\ MeasureText(title) > resolvedWidth - 6) =>
        \E n \in 1 .. Len(TopBorder) - 6 :
            LET shown == SubSeq(TopBorder, 4, 3 + n)
            IN  /\ TopBorder = <<"TL", "[", "SP">> \o shown \o <<"SP", "]", "TR">>
                /\ shown[n] = "ELL"
                /\ IsPrefix(SubSeq(shown, 1, n - 1), title)
                /\ MeasureText(shown) <= resolvedWidth - 6

(* C22: for a drawn bordered box with an explicit width (>= 3) and auto
   height, every line Box.wrapContent produces appears, in order, as an
   interior row of the rendered box: line k is in the k-th row below the top
   padding rows, after the border and the left padding. *)
C22_NoContentDropped ==
    (BoxDrawn /\ boxWidth >= 3 /\ boxHeight <= 0) =>
        LET cw == resolvedWidth - 2 - (padding * 2)
            contentLines == wrapContent(IF cw <= 0 THEN 1 ELSE cw)
        IN  \A k \in 1 .. Len(contentLines) :
                /\ 1 + padding + k < Len(rendered) - padding
                /\ IsPrefix(<<"V">> \o Repeat(Space, padding) \o contentLines[k],
                            StripANSI(rendered[1 + padding + k]))

(* C23: with auto width and any padding >= 0, a drawn bordered box shows its
   title in full inside the brackets of its top border. *)
C23_AutoWidthKeepsTitle ==
    (BoxDrawn /\ boxWidth <= 0 /\ title # <<>>) =>
        \E L, R \in 0 .. resolvedWidth :
            TopBorder = <<"TL">> \o Repeat(<<"H">>, L) \o <<"[", "SP">> \o title
                           \o <<"SP", "]">> \o Repeat(<<"H">>, R) \o <<"TR">>

(* C24: the number of lines a drawn bordered box has equals the resolved
   height, for every explicit or auto height >= 3 and every padding >= 0. *)
C24_LineCountIsHeight ==
    BoxDrawn => Len(rendered) = resolvedHeight

-----------------------------------------------------------------------------
(* Properties of rendering *)

(* Table.Render drew a table *)
TableDrawn == tableRenders > 0 /\ ~tablePanicked /\ Len(headers) > 0

(* every rendered cell of the line of cells is as wide as its column *)
CellsFillColumns(cells) ==
    \A i \in 0 .. Len(columnWidths) - 1 :
        MeasureText(paddedCell(cells, i)) = columnWidths[i + 1]

(* C14: for every column width the table holds, calculated or explicitly
   set, 0 included, every rendered header and data cell has a measured width
   of exactly the column width, and all lines of a bordered table have the
   same measured width. *)
C14_CellsExactlyColumnWide ==
    (TableDrawn /\ Len(columnWidths) > 0
        /\ \A i \in 1 .. Len(columnWidths) : columnWidths[i] >= 0) =>
        /\ CellsFillColumns(headers)
        /\ \A r \in 1 .. Len(rows) : CellsFillColumns(rows[r])
        /\ tableBorder =>
              \A k \in 1 .. Len(tableRendered) :
                  MeasureText(tableRendered[k]) = MeasureText(tableRendered[1])

(* C15: for any explicit box width or height and any explicit table column
   widths that are zero or negative, Box.Render and Table.Render return a
   string and never panic. *)
C15_RenderNeverPanics ==
    /\ boxRenders > 0 => (~boxPanicked /\ rendered # <<>>)
    /\ tableRenders > 0 => (~tablePanicked /\ tableRendered # <<>>)

(* C17: a Box.Render and a Table.Render call leave every configuration field
   of the component unchanged, and a Render call that follows a Render call
   returns what that one returned. *)
C17_RenderIsPure ==
    [][/\ boxRenders' # boxRenders =>
             /\ boxConfig' = boxConfig
             /\ boxRenders >= 1 => (rendered' = rendered /\ boxPanicked' = boxPanicked)
       /\ tableRenders' # tableRenders =>
             /\ tableConfig' = tableConfig
             /\ tableRenders >= 1 =>
                   (tableRendered' = tableRendered /\ tablePanicked' = tablePanicked)]_vars

(* a table of two columns with a row was drawn twice, and the box beside it
   was drawn twice *)
C17_Witness ==
    /\ tableRenders = 2
    /\ TableDrawn
    /\ Len(columnWidths) >= 2
    /\ Len(rows) >= 1
    /\ Len(tableRendered) >= 5
    /\ boxRenders = 2
    /\ Len(rendered) >= 2

-----------------------------------------------------------------------------
(* Properties of the spinner *)

(* C20: after Stop is called on a spinner that was started with Start, the
   repaint goroutine eventually observes the stop signal and exits, under
   fair scheduling, having printed at most one more frame. *)
C20_StopEndsRepaint ==
    /\ (stop = "closed") ~> (goroutine = "exited")
    /\ [](framesAfterStop <= 1)

(* the goroutine printed one more frame after the channel was closed, over
   the blanked line, and then exited *)
C20_Witness ==
    /\ caller = "stopped"
    /\ goroutine = "exited"
    /\ framesAfterStop = 1
    /\ screen # <<"blank">>

(* C29: any sequence of Stop, Success, Error, Warning and Info calls on the
   same spinner completes without a panic. *)
C29_StopIsRepeatable == caller # "panicked"

-----------------------------------------------------------------------------
(* Properties of the prompt *)

(* C21: Prompt.Run with Required(true) never returns an empty string
   together with a nil error, for any default, transformer and validator;
   Run returns an error only when reading the input fails, and then it
   returns the empty string. *)
C21_RequiredNeverEmpty ==
    (promptPc = "returned" /\ required) =>
        /\ resultErr = "nil" => result # <<>>
        /\ resultErr # "nil" => (resultErr = "read error" /\ result = <<>>)

-----------------------------------------------------------------------------
(* Properties of the menu *)

(* C27: after any sequence of Options, OptionsWithDesc, Selected,
   SelectByIndex, SelectByOption, SelectNext and SelectPrev calls, whenever
   the menu has at least one option, 0 <= selected < len(options), and
   GetSelectedOption returns one of the current options. *)
C27_SelectionInRange ==
    Len(options) >= 1 =>
        /\ 0 <= selected /\ selected < Len(options)
        /\ \E k \in 1 .. Len(options) : GetSelectedOption = <<options[k]>>

-----------------------------------------------------------------------------
(* Properties of the progress bar *)

(* the cells of a drawn bar *)
BarCells == Len(SelectSeq(barOut, LAMBDA g : g \in {"FILL", "EMPTY"}))

(* C28: for total > 0 and any sequence of Update, SetCurrent, Increment,
   IncrementBy and Complete calls with any integer arguments, the bar that
   Render draws between its caps has exactly width cells: the filled cells
   and the empty cells add up to width. *)
C28_BarHasWidthCells ==
    (total > 0 /\ barOut # <<"nothing">>) => BarCells = barWidth

=============================================================================
